---- MODULE Spec2Model ----
(***************************************************************************)
(* Model of the Deep Lynx query package: run_workflow (run.py), the Lot    *)
(* fetch loop (query.py) and the result processing (process.py).           *)
(*                                                                         *)
(* Python values are tagged records.  A dict is [k |-> "dict", f |-> r]    *)
(* with r a record whose fields are the keys that are present.  A str is   *)
(* the sequence of its characters.  A float is an exact fraction n/d in    *)
(* lowest terms with d > 0.  A call that may raise returns                 *)
(* [exc |-> <exception name or "none">, val |-> <value>].                  *)
(***************************************************************************)
EXTENDS Integers, Sequences, FiniteSets, TLC

VARIABLES pc, include_example, product_result, has_p_values,
          unique_has_p_values, lot_results, fetches, saved, result, error

vars == <<pc, include_example, product_result, has_p_values,
          unique_has_p_values, lot_results, fetches, saved, result, error>>

\* ------------------------------------------------------------ bounds
MaxProducts == 2

MaxLotResults == 2

\* ------------------------------------------------------------ Python values
PyNone == [k |-> "None"]

PyInt(n) == [k |-> "int", v |-> n]

\* an int too large for a float (float() raises OverflowError on it)
PyBigInt == [k |-> "bigint"]

PyStr(s) == [k |-> "str", s |-> s]

PyList(items) == [k |-> "list", items |-> items]

PyDict(f) == [k |-> "dict", f |-> f]

EmptyDict == [k |-> "dict", f |-> <<>>]

EmptyList == PyList(<<>>)

Ok(v) == [exc |-> "none", val |-> v]

Raise(e) == [exc |-> e, val |-> PyNone]

\* ------------------------------------------------------------ floats
RECURSIVE Gcd(_, _)
Gcd(a, b) == IF b = 0 THEN a ELSE Gcd(b, a % b)

Abs(n) == IF n < 0 THEN -n ELSE n

Frac(n, d) ==
    LET g == Gcd(Abs(n), d)
    IN  [k |-> "float", n |-> n \div g, d |-> d \div g]

FloatAdd(x, y) == Frac(x.n * y.d + y.n * x.d, x.d * y.d)

FloatDivInt(x, c) == Frac(x.n, x.d * c)

Zero == Frac(0, 1)

\* ------------------------------------------------------------ builtins
Digits == <<"0", "1", "2", "3", "4", "5", "6", "7", "8", "9">>

IsDigit(c) == \E i \in 1..10 : Digits[i] = c

DigitVal(c) == (CHOOSE i \in 1..10 : Digits[i] = c) - 1

RECURSIVE DigitsVal(_)
DigitsVal(s) ==
    IF s = <<>> THEN 0
    ELSE 10 * DigitsVal(SubSeq(s, 1, Len(s) - 1)) + DigitVal(s[Len(s)])

RECURSIVE Pow10(_)
Pow10(n) == IF n = 0 THEN 1 ELSE 10 * Pow10(n - 1)

\* the digits of s with the characters that are "." removed
NoPoint(s) == SelectSeq(s, LAMBDA c : c # ".")

\* float(str): decimal digits with at most one point and at least one digit
StrIsNumber(s) ==
    /\ \A i \in 1..Len(s) : IsDigit(s[i]) \/ s[i] = "."
    /\ Len(s) - Len(NoPoint(s)) <= 1
    /\ Len(NoPoint(s)) >= 1

StrToFloat(s) ==
    LET p == IF \E i \in 1..Len(s) : s[i] = "."
             THEN CHOOSE i \in 1..Len(s) : s[i] = "."
             ELSE Len(s) + 1
        decimals == IF p > Len(s) THEN 0 ELSE Len(s) - p
    IN  Frac(DigitsVal(NoPoint(s)), Pow10(decimals))

\* bool(v)
Truthy(v) ==
    CASE v.k = "None"   -> FALSE
      [] v.k = "int"    -> v.v # 0
      [] v.k = "bigint" -> TRUE
      [] v.k = "float"  -> v.n # 0
      [] v.k = "str"    -> Len(v.s) > 0
      [] v.k = "list"   -> Len(v.items) > 0
      [] v.k = "dict"   -> DOMAIN v.f # {}

\* float(v)
ToFloat(v) ==
    CASE v.k = "int"    -> Ok(Frac(v.v, 1))
      [] v.k = "float"  -> Ok(v)
      [] v.k = "bigint" -> Raise("OverflowError")
      [] v.k = "str"    -> IF StrIsNumber(v.s) THEN Ok(StrToFloat(v.s))
                           ELSE Raise("ValueError")
      [] OTHER          -> Raise("TypeError")

\* len(v)
PyLen(v) ==
    CASE v.k = "list" -> Ok(Len(v.items))
      [] v.k = "str"  -> Ok(Len(v.s))
      [] v.k = "dict" -> Ok(Cardinality(DOMAIN v.f))
      [] OTHER        -> Raise("TypeError")

\* d.get(key, default)
DictGet(d, key, default) ==
    IF d.k # "dict" THEN Raise("AttributeError")
    ELSE IF key \in DOMAIN d.f THEN Ok(d.f[key])
    ELSE Ok(default)

\* d[key]
DictItem(d, key) ==
    IF d.k # "dict" THEN Raise("TypeError")
    ELSE IF key \in DOMAIN d.f THEN Ok(d.f[key])
    ELSE Raise("KeyError")

\* res.get('data', {}).get('metatypes', {}).get(type, default)
EnvelopeGet(res, type, default) ==
    LET data == DictGet(res, "data", EmptyDict)
    IN  IF data.exc # "none" THEN data
        ELSE LET metatypes == DictGet(data.val, "metatypes", EmptyDict)
             IN  IF metatypes.exc # "none" THEN metatypes
                 ELSE DictGet(metatypes.val, type, default)

\* v[0]
PyFirst(v) ==
    CASE v.k = "list" -> IF Len(v.items) > 0 THEN Ok(v.items[1])
                         ELSE Raise("IndexError")
      [] v.k = "str"  -> IF Len(v.s) > 0 THEN Ok(PyStr(<<v.s[1]>>))
                         ELSE Raise("IndexError")
      [] v.k = "dict" -> Raise("KeyError")
      [] OTHER        -> Raise("TypeError")

\* the values that `for x in v` yields, for a v that len() accepts
PyIter(v) ==
    CASE v.k = "list" -> v.items
      [] v.k = "str"  -> [i \in 1..Len(v.s) |-> PyStr(<<v.s[i]>>)]

\* ------------------------------------------------------------ process.py
\* a mutant of Metric: a value that converts to zero is taken as absent too
MetricZeroAbsent(lot_data, key) ==
    LET got == DictGet(lot_data, key, PyNone)
    IN  IF got.exc # "none" THEN got
        ELSE IF Truthy(got.val)
        THEN LET f == ToFloat(DictItem(lot_data, key).val)
             IN  IF f.exc = "none" /\ ~Truthy(f.val) THEN Ok(PyNone) ELSE f
        ELSE Ok(PyNone)

\* a mutant of Metric: a value that does not convert is logged and taken as absent
MetricLenient(lot_data, key) ==
    LET got == DictGet(lot_data, key, PyNone)
    IN  IF got.exc # "none" THEN got
        ELSE IF Truthy(got.val)
        THEN LET f == ToFloat(DictItem(lot_data, key).val)
             IN  IF f.exc = "none" THEN f ELSE Ok(PyNone)
        ELSE Ok(PyNone)

\* float(lot_data[key]) if lot_data.get(key) else None
Metric(lot_data, key) ==
    LET got == DictGet(lot_data, key, PyNone)
    IN  IF got.exc # "none" THEN got
        ELSE IF Truthy(got.val) THEN ToFloat(DictItem(lot_data, key).val)
        ELSE Ok(PyNone)

\* a mutant of from_lot_data: lot_id=lot_data.get('hasP')
from_lot_data_get(lot_data) ==
    LET has_etc == Metric(lot_data, "HasEtc")
        has_b   == Metric(lot_data, "HasB")
        has_euc == Metric(lot_data, "HasEuC")
        lot_id  == DictGet(lot_data, "hasP", PyNone)
    IN  IF has_etc.exc # "none" THEN Raise(has_etc.exc)
        ELSE IF has_b.exc # "none" THEN Raise(has_b.exc)
        ELSE IF has_euc.exc # "none" THEN Raise(has_euc.exc)
        ELSE IF lot_id.exc # "none" THEN Raise(lot_id.exc)
        ELSE Ok([lot_id  |-> lot_id.val,
                 has_etc |-> has_etc.val,
                 has_b   |-> has_b.val,
                 has_euc |-> has_euc.val])

\* LotStats.from_lot_data
from_lot_data(lot_data) ==
    LET has_etc == Metric(lot_data, "HasEtc")
        has_b   == Metric(lot_data, "HasB")
        has_euc == Metric(lot_data, "HasEuC")
        lot_id  == DictItem(lot_data, "hasP")
    IN  IF has_etc.exc # "none" THEN Raise(has_etc.exc)
        ELSE IF has_b.exc # "none" THEN Raise(has_b.exc)
        ELSE IF has_euc.exc # "none" THEN Raise(has_euc.exc)
        ELSE IF lot_id.exc # "none" THEN Raise(lot_id.exc)
        ELSE Ok([lot_id  |-> lot_id.val,
                 has_etc |-> has_etc.val,
                 has_b   |-> has_b.val,
                 has_euc |-> has_euc.val])

\* LotStats.has_values
has_values(lot) ==
    Truthy(lot.has_etc) \/ Truthy(lot.has_b) \/ Truthy(lot.has_euc)

\* LotStats.to_dict
to_dict(lot) ==
    [lot_id |-> lot.lot_id, HasEtc |-> lot.has_etc,
     HasB |-> lot.has_b, HasEuC |-> lot.has_euc]

\* a mutant of AddIfPresent: `if value:` in place of `if value is not None:`
AddIfTruthy(sum, count, value) ==
    IF Truthy(value) THEN [sum |-> FloatAdd(sum, value), count |-> count + 1]
    ELSE [sum |-> sum, count |-> count]

\* if value is not None: sum += value; count += 1
AddIfPresent(sum, count, value) ==
    IF value # PyNone THEN [sum |-> FloatAdd(sum, value), count |-> count + 1]
    ELSE [sum |-> sum, count |-> count]

\* the body of calculate_averages' loop, for one lot
AccumulateLot(acc, lot) ==
    LET etc == AddIfPresent(acc.etc_sum, acc.etc_count, lot.has_etc)
        b   == AddIfPresent(acc.b_sum, acc.b_count, lot.has_b)
        euc == AddIfPresent(acc.euc_sum, acc.euc_count, lot.has_euc)
    IN  [etc_sum |-> etc.sum, etc_count |-> etc.count,
         b_sum   |-> b.sum,   b_count   |-> b.count,
         euc_sum |-> euc.sum, euc_count |-> euc.count]

RECURSIVE AccumulateLots(_, _, _)
AccumulateLots(acc, lots, i) ==
    IF i > Len(lots) THEN acc
    ELSE AccumulateLots(AccumulateLot(acc, lots[i]), lots, i + 1)

\* sum / count if count > 0 else None
AverageOrNone(sum, count) ==
    IF count > 0 THEN FloatDivInt(sum, count) ELSE PyNone

\* a mutant of CountWithValues: counts the metrics that have a value
RECURSIVE CountValues(_, _)
CountValues(lots, i) ==
    IF i > Len(lots) THEN 0
    ELSE (IF Truthy(lots[i].has_etc) THEN 1 ELSE 0)
         + (IF Truthy(lots[i].has_b) THEN 1 ELSE 0)
         + (IF Truthy(lots[i].has_euc) THEN 1 ELSE 0)
         + CountValues(lots, i + 1)

\* sum(1 for lot in lots if lot.has_values()), from the i-th lot on
RECURSIVE CountWithValues(_, _)
CountWithValues(lots, i) ==
    IF i > Len(lots) THEN 0
    ELSE (IF has_values(lots[i]) THEN 1 ELSE 0) + CountWithValues(lots, i + 1)

calculate_averages(lots) ==
    LET init == [etc_sum |-> Zero, etc_count |-> 0,
                 b_sum   |-> Zero, b_count   |-> 0,
                 euc_sum |-> Zero, euc_count |-> 0]
        acc  == AccumulateLots(init, lots, 1)
    IN  [HasEtc_avg |-> AverageOrNone(acc.etc_sum, acc.etc_count),
         HasB_avg   |-> AverageOrNone(acc.b_sum, acc.b_count),
         HasEuC_avg |-> AverageOrNone(acc.euc_sum, acc.euc_count),
         total_lots |-> Len(lots),
         lots_with_values |-> CountWithValues(lots, 1)]

\* the detail entry process_results appends for one product
ProductDetail(product) ==
    LET record == DictGet(product, "_record", EmptyDict)
        id     == IF record.exc # "none" THEN record
                  ELSE DictGet(record.val, "original_id", PyStr(<<"U","n","k","n","o","w","n">>))
    IN  IF id.exc # "none" THEN Raise(id.exc)
        ELSE Ok([id       |-> id.val,
                 hasShape |-> DictGet(product, "hasShape", PyNone).val,
                 HasComp  |-> DictGet(product, "HasComp", PyNone).val,
                 HasD     |-> DictGet(product, "HasD", PyNone).val,
                 HasP     |-> DictGet(product, "HasP", PyNone).val])

\* a mutant of AddHasD: no try/except around the conversion
AddHasDStrict(acc, product) ==
    IF Truthy(DictGet(product, "HasD", PyNone).val)
    THEN LET f == ToFloat(DictItem(product, "HasD").val)
         IN  IF f.exc = "none"
             THEN [acc EXCEPT !.has_d_sum = FloatAdd(@, f.val),
                              !.has_d_count = @ + 1]
             ELSE [acc EXCEPT !.exc = f.exc]
    ELSE acc

\* if product.get('HasD'): try: sum += float(...); count += 1
\* except (ValueError, TypeError): warning
AddHasD(acc, product) ==
    IF Truthy(DictGet(product, "HasD", PyNone).val)
    THEN LET f == ToFloat(DictItem(product, "HasD").val)
         IN  IF f.exc = "none"
             THEN [acc EXCEPT !.has_d_sum = FloatAdd(@, f.val),
                              !.has_d_count = @ + 1]
             ELSE IF f.exc \in {"ValueError", "TypeError"} THEN acc
             ELSE [acc EXCEPT !.exc = f.exc]
    ELSE acc

\* the loop over the products, from the i-th product on
RECURSIVE ProductLoop(_, _, _)
ProductLoop(acc, products, i) ==
    IF acc.exc # "none" \/ i > Len(products) THEN acc
    ELSE LET detail == ProductDetail(products[i])
         IN  IF detail.exc # "none" THEN [acc EXCEPT !.exc = detail.exc]
             ELSE ProductLoop(
                    AddHasD([acc EXCEPT !.product_details = Append(@, detail.val)],
                            products[i]),
                    products, i + 1)

\* a mutant of LotOf: the record is built from the last entity of the list
LotOfLast(lot_result) ==
    LET lot_data == EnvelopeGet(lot_result, "Lot", EmptyList)
    IN  IF lot_data.exc # "none" THEN Raise(lot_data.exc)
        ELSE IF ~Truthy(lot_data.val) THEN Ok(PyNone)
        ELSE IF PyLen(lot_data.val).exc # "none" THEN Raise(PyLen(lot_data.val).exc)
        ELSE IF PyLen(lot_data.val).val > 0
        THEN from_lot_data(lot_data.val.items[Len(lot_data.val.items)])
        ELSE Ok(PyNone)

\* one iteration of the loop over lot_results: the LotStats to append, or
\* None when the result has no Lot entity
LotOf(lot_result) ==
    LET lot_data == EnvelopeGet(lot_result, "Lot", EmptyList)
    IN  IF lot_data.exc # "none" THEN Raise(lot_data.exc)
        ELSE IF ~Truthy(lot_data.val) THEN Ok(PyNone)
        ELSE IF PyLen(lot_data.val).exc # "none" THEN Raise(PyLen(lot_data.val).exc)
        ELSE IF PyLen(lot_data.val).val > 0
        THEN LET first == PyFirst(lot_data.val)
             IN  IF first.exc # "none" THEN Raise(first.exc)
                 ELSE from_lot_data(first.val)
        ELSE Ok(PyNone)

\* the loop over lot_results, from the i-th result on
RECURSIVE LotLoop(_, _, _)
LotLoop(acc, results, i) ==
    IF acc.exc # "none" \/ i > Len(results) THEN acc
    ELSE LET lot == LotOf(results[i])
         IN  IF lot.exc # "none" THEN [acc EXCEPT !.exc = lot.exc]
             ELSE IF lot.val = PyNone THEN LotLoop(acc, results, i + 1)
             ELSE LotLoop([acc EXCEPT !.lots = Append(@, lot.val)], results, i + 1)

NoReport == [k |-> "None"]

process_results(product_res, lot_res) ==
    LET products == EnvelopeGet(product_res, "Product", EmptyList)
    IN  IF products.exc # "none" THEN Raise(products.exc)
        ELSE IF PyLen(products.val).exc # "none" THEN Raise(PyLen(products.val).exc)
        ELSE
        LET ploop == ProductLoop([exc |-> "none", has_d_sum |-> Zero,
                                  has_d_count |-> 0, product_details |-> <<>>],
                                 PyIter(products.val), 1)
        IN  IF ploop.exc # "none" THEN Raise(ploop.exc)
            ELSE
            LET lloop == LotLoop([exc |-> "none", lots |-> <<>>], lot_res, 1)
            IN  IF lloop.exc # "none" THEN Raise(lloop.exc)
                ELSE
                LET stats == calculate_averages(lloop.lots)
                IN  Ok([k |-> "report",
                        products |-> PyLen(products.val).val,
                        product_details |-> ploop.product_details,
                        product_averages |->
                            [HasD |-> AverageOrNone(ploop.has_d_sum, ploop.has_d_count)],
                        lots |-> [total |-> stats.total_lots,
                                  with_values |-> stats.lots_with_values],
                        lot_averages |-> [HasEtc |-> stats.HasEtc_avg,
                                          HasB   |-> stats.HasB_avg,
                                          HasEuC |-> stats.HasEuC_avg],
                        lot_details |-> [i \in 1..Len(lloop.lots) |->
                                            to_dict(lloop.lots[i])]])

\* ------------------------------------------------------------ run.py, query.py
\* the example Lot key run_workflow appends when include_example is set
ExampleKey == PyStr(<<"0", "1", "-", "5", "2">>)

\* the loop of extract_has_p_values, from the i-th product on
RECURSIVE ExtractLoop(_, _, _)
ExtractLoop(acc, products, i) ==
    IF acc.exc # "none" \/ i > Len(products) THEN acc
    ELSE LET has_p == DictGet(products[i], "HasP", PyNone)
         IN  IF has_p.exc # "none" THEN Raise(has_p.exc)
             ELSE IF Truthy(has_p.val)
             THEN ExtractLoop(Ok(Append(acc.val, has_p.val)), products, i + 1)
             ELSE LET record == DictGet(products[i], "_record", EmptyDict)
                      id == IF record.exc # "none" THEN record
                            ELSE DictGet(record.val, "original_id", PyNone)
                  IN  IF id.exc # "none" THEN Raise(id.exc)
                      ELSE ExtractLoop(acc, products, i + 1)

extract_has_p_values(product_res) ==
    LET products == EnvelopeGet(product_res, "Product", EmptyList)
    IN  IF products.exc # "none" THEN Raise(products.exc)
        ELSE IF PyLen(products.val).exc # "none" THEN Raise(PyLen(products.val).exc)
        ELSE ExtractLoop(Ok(<<>>), PyIter(products.val), 1)

\* a mutant of Dedup: the list is left as it is
NoDedup(values) == values

\* list(dict.fromkeys(values)): each value once, in first-occurrence order
RECURSIVE DedupFrom(_, _, _)
DedupFrom(acc, values, i) ==
    IF i > Len(values) THEN acc
    ELSE IF \E j \in 1..Len(acc) : acc[j] = values[i]
    THEN DedupFrom(acc, values, i + 1)
    ELSE DedupFrom(Append(acc, values[i]), values, i + 1)

Dedup(values) == DedupFrom(<<>>, values, 1)

\* query_products after the fetch: the logging of the first product
ProductLogCheck(res) ==
    LET products == EnvelopeGet(res, "Product", PyNone)
    IN  IF products.exc # "none" THEN Raise(products.exc)
        ELSE IF Truthy(products.val) /\ PyFirst(products.val).exc # "none"
        THEN Raise(PyFirst(products.val).exc)
        ELSE Ok(res)

\* query_lots after one fetch: the logging of the first Lot entity
LotLogCheck(res) ==
    LET lot == EnvelopeGet(res, "Lot", PyNone)
    IN  IF lot.exc # "none" THEN Raise(lot.exc)
        ELSE IF ~Truthy(lot.val) THEN Ok(res)
        ELSE IF PyFirst(lot.val).exc # "none" THEN Raise(PyFirst(lot.val).exc)
        ELSE IF PyFirst(lot.val).val.k # "dict" THEN Raise("AttributeError")
        ELSE Ok(res)

\* ------------------------------------------------------------ the service's answers
Str1(c) == PyStr(<<c>>)

Str2(c, d) == PyStr(<<c, d>>)

KeyA == Str1("A")

KeyB == Str1("B")

\* {"data": {"metatypes": {type: entities}}}
Envelope(type, entities) ==
    PyDict([data |-> PyDict([metatypes |->
        PyDict(IF type = "Product" THEN [Product |-> entities]
               ELSE [Lot |-> entities])])])

ProductEntity(id, has_d, has_p) ==
    PyDict([hasShape |-> PyInt(6), HasComp |-> Str1("N"), HasD |-> has_d,
            HasP |-> has_p, _record |-> PyDict([original_id |-> id])])

ProductEntities ==
    { ProductEntity(Str2("P", "1"), Str2("1", "0"), KeyA),
      ProductEntity(Str2("P", "2"), PyInt(20), KeyA),
      ProductEntity(Str2("P", "3"), PyInt(0), KeyB),
      PyDict([hasShape |-> PyInt(6), HasComp |-> Str1("N"), HasD |-> Str1("x"),
              HasP |-> PyStr(<<>>)]),
      PyDict([hasShape |-> PyInt(6), HasComp |-> Str1("N"), HasD |-> PyBigInt,
              HasP |-> ExampleKey, _record |-> EmptyDict]) }

SeqsUpTo(S, n) == UNION {[1..m -> S] : m \in 0..n}

\* envelopes whose nesting is broken at some level
BrokenProductResults ==
    { PyDict(<<>>),
      PyDict([data |-> PyDict([metatypes |-> PyNone])]),
      PyDict([data |-> PyDict([metatypes |-> EmptyDict])]),
      PyDict([data |-> PyDict([metatypes |-> PyDict([Product |-> PyNone])])]) }

ProductResults ==
    {Envelope("Product", PyList(ps)) : ps \in SeqsUpTo(ProductEntities, MaxProducts)}
    \cup BrokenProductResults

LotEntity(has_p, etc, b, euc) ==
    PyDict([hasP |-> has_p, HasEtc |-> etc, HasB |-> b, HasEuC |-> euc])

\* the Lot lists the service may answer a fetch for `key` with
LotLists(key) ==
    { <<>>,
      <<LotEntity(key, Str1("2"), PyNone, Str1("4"))>>,
      <<PyDict([hasP |-> key, HasEtc |-> Str1("0"), HasB |-> PyInt(0)])>>,
      <<LotEntity(key, PyInt(4), PyStr(<<"2", ".", "5">>), PyStr(<<>>))>>,
      <<LotEntity(key, Str1("x"), PyNone, Str1("4"))>>,
      <<PyDict([HasEtc |-> Str1("2"), HasB |-> PyNone, HasEuC |-> PyNone])>>,
      <<LotEntity(key, PyNone, Str1("6"), PyNone),
        LotEntity(key, Str1("2"), PyNone, Str1("4"))>> }

BrokenLotResults ==
    { PyDict([data |-> PyNone]),
      PyDict([data |-> EmptyDict]),
      PyDict([data |-> PyDict([metatypes |-> PyDict([Lot |-> PyNone])])]) }

LotResults(key) ==
    {Envelope("Lot", PyList(ls)) : ls \in LotLists(key)} \cup BrokenLotResults

\* the outcome of query_deep_lynx when the request fails
FetchFailed == [k |-> "raise"]

\* ------------------------------------------------------------ run_workflow
Init ==
    /\ pc = "query_products"
    /\ include_example \in BOOLEAN
    /\ product_result = PyNone
    /\ has_p_values = <<>>
    /\ unique_has_p_values = <<>>
    /\ lot_results = <<>>
    /\ fetches = <<>>
    /\ saved = FALSE
    /\ result = NoReport
    /\ error = "none"

\* an exception leaves run_workflow (logged and re-raised)
Fail(e) ==
    /\ pc' = "failed"
    /\ error' = e

\* product_result = query_products(settings, shape, comp)
QueryProducts ==
    /\ pc = "query_products"
    /\ \E res \in ProductResults \cup {FetchFailed} :
          /\ fetches' = Append(fetches, [type |-> "Product", key |-> PyNone,
                                         ok |-> res # FetchFailed])
          /\ IF res = FetchFailed
             THEN Fail("RequestException") /\ UNCHANGED product_result
             ELSE IF ProductLogCheck(res).exc # "none"
             THEN Fail(ProductLogCheck(res).exc) /\ UNCHANGED product_result
             ELSE /\ product_result' = res
                  /\ pc' = "extract"
                  /\ UNCHANGED error
    /\ UNCHANGED <<include_example, has_p_values, unique_has_p_values,
                   lot_results, saved, result>>

\* has_p_values = extract_has_p_values(product_result), plus the example key
ExtractHasP ==
    /\ pc = "extract"
    /\ LET got == extract_has_p_values(product_result)
       IN  IF got.exc # "none"
           THEN Fail(got.exc) /\ UNCHANGED has_p_values
           ELSE /\ has_p_values' = IF include_example
                                   THEN Append(got.val, ExampleKey)
                                   ELSE got.val
                /\ pc' = "query_lots"
                /\ UNCHANGED error
    /\ UNCHANGED <<include_example, product_result, unique_has_p_values,
                   lot_results, fetches, saved, result>>

\* a mutant of QueryLotsStart: the duplicates are not removed
QueryLotsStartNoDedup ==
    /\ pc = "query_lots"
    /\ unique_has_p_values' = has_p_values
    /\ lot_results' = <<>>
    /\ pc' = IF has_p_values = <<>> THEN "save" ELSE "query_lot"
    /\ UNCHANGED <<include_example, product_result, has_p_values, fetches,
                   saved, result, error>>

\* query_lots up to its loop: the keys without duplicates
QueryLotsStart ==
    /\ pc = "query_lots"
    /\ unique_has_p_values' = Dedup(has_p_values)
    /\ lot_results' = <<>>
    /\ pc' = IF Dedup(has_p_values) = <<>> THEN "save" ELSE "query_lot"
    /\ UNCHANGED <<include_example, product_result, has_p_values, fetches,
                   saved, result, error>>

\* a mutant of QueryLot: a failed fetch is swallowed, that key yields an empty
\* result and the loop goes on
QueryLotSkipFailed ==
    /\ pc = "query_lot"
    /\ LET has_p == unique_has_p_values[Len(lot_results) + 1]
       IN  \E res \in LotResults(has_p) \cup {FetchFailed} :
             /\ fetches' = Append(fetches, [type |-> "Lot", key |-> has_p,
                                            ok |-> res # FetchFailed])
             /\ IF res # FetchFailed /\ LotLogCheck(res).exc # "none"
                THEN Fail(LotLogCheck(res).exc) /\ UNCHANGED lot_results
                ELSE /\ lot_results' = Append(lot_results,
                            IF res = FetchFailed THEN EmptyDict ELSE res)
                     /\ pc' = IF Len(lot_results) + 1 = Len(unique_has_p_values)
                              THEN "save" ELSE "query_lot"
                     /\ UNCHANGED error
    /\ UNCHANGED <<include_example, product_result, has_p_values,
                   unique_has_p_values, saved, result>>

\* one iteration of the loop of query_lots: the fetch for the next key
QueryLot ==
    /\ pc = "query_lot"
    /\ LET has_p == unique_has_p_values[Len(lot_results) + 1]
       IN  \E res \in LotResults(has_p) \cup {FetchFailed} :
             /\ fetches' = Append(fetches, [type |-> "Lot", key |-> has_p,
                                            ok |-> res # FetchFailed])
             /\ IF res = FetchFailed
                THEN Fail("RequestException") /\ UNCHANGED lot_results
                ELSE IF LotLogCheck(res).exc # "none"
                THEN Fail(LotLogCheck(res).exc) /\ UNCHANGED lot_results
                ELSE /\ lot_results' = Append(lot_results, res)
                     /\ pc' = IF Len(lot_results) + 1 = Len(unique_has_p_values)
                              THEN "save" ELSE "query_lot"
                     /\ UNCHANGED error
    /\ UNCHANGED <<include_example, product_result, has_p_values,
                   unique_has_p_values, saved, result>>

\* save_raw_data(product_result, lot_results, shape, comp): the file is
\* written, or the write raises
SaveRawData ==
    /\ pc = "save"
    /\ \E written \in BOOLEAN :
          IF written
          THEN saved' = TRUE /\ pc' = "process" /\ UNCHANGED error
          ELSE Fail("OSError") /\ UNCHANGED saved
    /\ UNCHANGED <<include_example, product_result, has_p_values,
                   unique_has_p_values, lot_results, fetches, result>>

\* result = process_results(product_result, lot_results)
ProcessResults ==
    /\ pc = "process"
    /\ LET r == process_results(product_result, lot_results)
       IN  IF r.exc # "none"
           THEN Fail(r.exc) /\ UNCHANGED result
           ELSE result' = r.val /\ pc' = "done" /\ UNCHANGED error
    /\ UNCHANGED <<include_example, product_result, has_p_values,
                   unique_has_p_values, lot_results, fetches, saved>>

Next ==
    \/ QueryProducts
    \/ ExtractHasP
    \/ QueryLotsStart
    \/ QueryLot
    \/ SaveRawData
    \/ ProcessResults

Spec == Init /\ [][Next]_vars

\* ------------------------------------------------------------ process_results called directly
\* a caller of the package hands process_results a Product result and
\* Lot results of its own
InitProcess ==
    /\ pc = "process"
    /\ include_example = FALSE
    /\ product_result \in ProductResults
    /\ lot_results \in SeqsUpTo(LotResults(KeyA), MaxLotResults)
    /\ has_p_values = <<>>
    /\ unique_has_p_values = <<>>
    /\ fetches = <<>>
    /\ saved = FALSE
    /\ result = NoReport
    /\ error = "none"

NextProcess == ProcessResults

SpecProcess == InitProcess /\ [][NextProcess]_vars

\* ------------------------------------------------------------ the raw inputs, read directly
\* the envelope is nested as the service documents it
WellFormed(res, type) ==
    /\ res.k = "dict"
    /\ "data" \in DOMAIN res.f
    /\ res.f.data.k = "dict"
    /\ "metatypes" \in DOMAIN res.f.data.f
    /\ res.f.data.f.metatypes.k = "dict"
    /\ type \in DOMAIN res.f.data.f.metatypes.f
    /\ res.f.data.f.metatypes.f[type].k = "list"

\* the entities of a result; none when its envelope is not well formed
Entities(res, type) ==
    IF WellFormed(res, type) THEN res.f.data.f.metatypes.f[type].items ELSE <<>>

\* the raw value of a field of an entity, None when the entity has no such field
Raw(entity, key) == IF key \in DOMAIN entity.f THEN entity.f[key] ELSE PyNone

MetricKeys == {"HasEtc", "HasB", "HasEuC"}

\* the Lot results that hold at least one entity, in the order of the results
NonEmptyLotResults == SelectSeq(lot_results, LAMBDA r : Entities(r, "Lot") # <<>>)

\* the first entity of each such result
FirstEntities == [i \in 1..Len(NonEmptyLotResults) |->
                     Entities(NonEmptyLotResults[i], "Lot")[1]]

\* the sum of a sequence of floats as a pair <<numerator, denominator>>
RECURSIVE SumPair(_)
SumPair(values) ==
    IF values = <<>> THEN <<0, 1>>
    ELSE LET rest == SumPair(Tail(values))
         IN  <<Head(values).n * rest[2] + rest[1] * Head(values).d,
               Head(values).d * rest[2]>>

Present(values) == SelectSeq(values, LAMBDA v : v # PyNone)

\* avg is the arithmetic mean of the values that are not None, None when
\* there is no such value
IsMeanOfPresent(avg, values) ==
    IF Present(values) = <<>> THEN avg = PyNone
    ELSE /\ avg # PyNone
         /\ avg.k = "float"
         /\ avg.n * SumPair(Present(values))[2] * Len(Present(values))
               = SumPair(Present(values))[1] * avg.d

\* the values of one metric over the lots of the report
DetailValues(key) == [i \in 1..Len(result.lot_details) |-> result.lot_details[i][key]]

\* ------------------------------------------------------------ claims
\* C1: for each of the three metrics, the average calculate_averages returns is
\* the sum of exactly the values that are not None divided by their number,
\* and None (never zero) when no lot has a value for the metric.
C1_AveragesAreMeans ==
    pc = "done" =>
        /\ IsMeanOfPresent(result.lot_averages.HasEtc, DetailValues("HasEtc"))
        /\ IsMeanOfPresent(result.lot_averages.HasB, DetailValues("HasB"))
        /\ IsMeanOfPresent(result.lot_averages.HasEuC, DetailValues("HasEuC"))

\* two lots: HasEtc 4 and 0.0 (mean 2), HasB 2.5 and None (mean 2.5),
\* HasEuC None twice (no average)
C1_Witness ==
    /\ pc = "done"
    /\ result.lots.total = 2
    /\ result.lot_averages.HasEtc = Frac(2, 1)
    /\ result.lot_averages.HasB = Frac(5, 2)
    /\ result.lot_averages.HasEuC = PyNone
    /\ \E i \in 1..2 : result.lot_details[i].HasEtc = Zero

\* C7: in every report, lots.with_values <= lots.total.
C7_WithValuesAtMostTotal ==
    pc = "done" => result.lots.with_values <= result.lots.total

\* a report over two lots of which exactly one has a value
C7_Witness ==
    /\ pc = "done"
    /\ result.lots.total = 2
    /\ result.lots.with_values = 1

\* C8: lots.total is the number of Lot results with a non-empty Lot list, and
\* lot_details has one entry per such result, in the order of the results,
\* built from the first entity of that result only.
C8_OneLotPerNonEmptyResult ==
    pc = "done" =>
        /\ result.lots.total = Len(NonEmptyLotResults)
        /\ Len(result.lot_details) = Len(NonEmptyLotResults)
        /\ \A i \in 1..Len(NonEmptyLotResults) :
              /\ from_lot_data(FirstEntities[i]).exc = "none"
              /\ result.lot_details[i] = to_dict(from_lot_data(FirstEntities[i]).val)
              /\ result.lot_details[i].lot_id = Raw(FirstEntities[i], "hasP")

\* an empty result followed by a result with two different entities
C8_Witness ==
    /\ pc = "done"
    /\ Len(lot_results) = 2
    /\ Entities(lot_results[1], "Lot") = <<>>
    /\ WellFormed(lot_results[1], "Lot")
    /\ Len(Entities(lot_results[2], "Lot")) = 2
    /\ result.lots.total = 1
    /\ result.lot_details[1].HasB = Frac(6, 1)

\* the raw value is the string "0"
IsZeroString(v) == v = Str1("0")

\* the raw value is the string "0", or falsy (None, 0, the empty string)
ZeroStringOrFalsy(v) == IsZeroString(v) \/ ~Truthy(v)

ProductHasPs ==
    LET products == Entities(product_result, "Product")
        has_ps   == [i \in 1..Len(products) |-> Raw(products[i], "HasP")]
    IN  SelectSeq(has_ps, Truthy)

\* the first place of value v in the sequence s
FirstIndex(s, v) == CHOOSE i \in 1..Len(s) :
                       s[i] = v /\ \A j \in 1..(i - 1) : s[j] # v

\* u lists the values of s without duplicates, in first-occurrence order
IsFirstOccurrenceList(u, s) ==
    /\ \A i, j \in 1..Len(u) : i # j => u[i] # u[j]
    /\ {u[i] : i \in 1..Len(u)} = {s[i] : i \in 1..Len(s)}
    /\ \A i, j \in 1..Len(u) : i < j => FirstIndex(s, u[i]) < FirstIndex(s, u[j])

\* C3 as stated: the list extract_has_p_values returns holds the HasP values
\* of the Products without duplicates, in first-occurrence order.
C3_ExtractHasNoDuplicates ==
    (pc = "query_lots" /\ ~include_example)
        => IsFirstOccurrenceList(has_p_values, ProductHasPs)

\* C3 amended: extract_has_p_values returns every truthy HasP value in Product
\* order, duplicates included; query_lots removes the duplicates, and the keys
\* it fetches are those values (and the example key) once each, in
\* first-occurrence order.
C3_QueryLotsRemovesDuplicates ==
    /\ pc = "query_lots" =>
          has_p_values = ProductHasPs \o (IF include_example THEN <<ExampleKey>> ELSE <<>>)
    /\ pc \in {"query_lot", "save", "process", "done"} =>
          /\ has_p_values = ProductHasPs \o (IF include_example THEN <<ExampleKey>> ELSE <<>>)
          /\ IsFirstOccurrenceList(unique_has_p_values, has_p_values)

\* the extracted list holds a key twice, and two keys are left to fetch
C3_Witness ==
    /\ pc = "query_lot"
    /\ Len(has_p_values) = 3
    /\ has_p_values[1] = has_p_values[3]
    /\ Len(unique_has_p_values) = 2
    /\ unique_has_p_values[1] = has_p_values[1]

\* ------------------------------------------------------------ inputs without a given fault
LacksHasP(entity) == "hasP" \notin DOMAIN entity.f

\* a metric of the entity is truthy and float() raises on it
BadMetric(entity) ==
    \E key \in MetricKeys :
        Truthy(Raw(entity, key)) /\ ToFloat(Raw(entity, key)).exc # "none"

\* the Product result is well formed and float() raises nothing but
\* ValueError or TypeError on a HasD
ProductSideFine ==
    /\ WellFormed(product_result, "Product")
    /\ \A i \in 1..Len(Entities(product_result, "Product")) :
          LET has_d == Raw(Entities(product_result, "Product")[i], "HasD")
          IN  Truthy(has_d) => ToFloat(has_d).exc \in {"none", "ValueError", "TypeError"}

LotEnvelopesFine == \A i \in 1..Len(lot_results) : WellFormed(lot_results[i], "Lot")

LotSideFine ==
    /\ LotEnvelopesFine
    /\ \A i \in 1..Len(FirstEntities) :
          ~LacksHasP(FirstEntities[i]) /\ ~BadMetric(FirstEntities[i])

\* C4 as stated: given several Lot results of which one has a first entity
\* without hasP (and nothing else is wrong), process_results returns a report
\* that leaves that entity out and aggregates the other Lot results.
C4_MissingKeyIsSkipped ==
    ( /\ pc # "process"
      /\ Len(lot_results) >= 2
      /\ ProductSideFine
      /\ LotEnvelopesFine
      /\ \A i \in 1..Len(FirstEntities) : ~BadMetric(FirstEntities[i])
      /\ \E i \in 1..Len(FirstEntities) : LacksHasP(FirstEntities[i]) )
    => /\ pc = "done"
       /\ result.lots.total =
             Cardinality({i \in 1..Len(FirstEntities) : ~LacksHasP(FirstEntities[i])})
       /\ Len(result.lot_details) = result.lots.total

\* C4 amended: a Lot result whose first entity has no hasP makes from_lot_data
\* raise KeyError, which leaves process_results: no report is returned, not even
\* one built from the other Lot results.
C4_MissingKeyAborts ==
    (pc # "process" /\ \E i \in 1..Len(FirstEntities) : LacksHasP(FirstEntities[i]))
    => /\ pc = "failed"
       /\ result = NoReport
       /\ ( /\ ProductSideFine
            /\ LotEnvelopesFine
            /\ \A i \in 1..Len(FirstEntities) : ~BadMetric(FirstEntities[i]) )
          => error = "KeyError"

\* two Lot results, the first sound and the second without hasP
C4_Witness ==
    /\ pc = "failed"
    /\ error = "KeyError"
    /\ ProductSideFine
    /\ Len(FirstEntities) = 2
    /\ ~LacksHasP(FirstEntities[1])
    /\ LacksHasP(FirstEntities[2])

\* C5 as stated: a Lot fetch that fails does not end the run: the remaining
\* keys are still fetched and run_workflow still produces a report.
C5_FailedFetchIsSkipped ==
    \A i \in 1..Len(fetches) :
        (fetches[i].type = "Lot" /\ ~fetches[i].ok) => pc # "failed"

\* C5 amended: a fetch that fails ends the run: the exception leaves query_lots
\* and run_workflow re-raises it, so the failed fetch is the last one (the
\* remaining keys are not fetched), nothing is saved and no report is produced.
C5_FailedFetchAborts ==
    \A i \in 1..Len(fetches) :
        ~fetches[i].ok =>
            /\ i = Len(fetches)
            /\ pc = "failed"
            /\ error = "RequestException"
            /\ result = NoReport
            /\ ~saved
            /\ ~ENABLED Next

\* the fetch for the second of three keys fails: one result, one key never fetched
C5_Witness ==
    /\ pc = "failed"
    /\ error = "RequestException"
    /\ Len(unique_has_p_values) = 3
    /\ Len(fetches) = 3
    /\ fetches[3].type = "Lot"
    /\ ~fetches[3].ok
    /\ Len(lot_results) = 1

\* C6: process_results never raises because of the nesting of an envelope: a
\* Product or Lot result whose data, metatypes or entity list is missing or
\* malformed (null included) counts as holding no entity, and the report is
\* still produced.
C6_BrokenEnvelopeIsEmpty ==
    ( /\ pc # "process"
      /\ \A i \in 1..Len(Entities(product_result, "Product")) :
            LET has_d == Raw(Entities(product_result, "Product")[i], "HasD")
            IN  Truthy(has_d) => ToFloat(has_d).exc \in {"none", "ValueError", "TypeError"}
      /\ \A i \in 1..Len(FirstEntities) :
            ~LacksHasP(FirstEntities[i]) /\ ~BadMetric(FirstEntities[i]) )
    => /\ pc = "done"
       /\ result.products = Len(Entities(product_result, "Product"))
       /\ result.lots.total = Len(NonEmptyLotResults)

\* float(has_d) for a HasD float() accepts, None otherwise
ConvertedOrNone(has_d) ==
    IF ToFloat(has_d).exc = "none" THEN ToFloat(has_d).val ELSE PyNone

\* C9 as stated: a Product whose HasD is present but does not convert to a
\* number does not make process_results fail; product_averages.HasD is the mean
\* over the Products with a present, convertible HasD (None when there are
\* none), and every Product is counted and listed with its raw HasD.
C9_LenientOverPresent ==
    (pc # "process" /\ ProductSideFine /\ LotSideFine)
    => LET products == Entities(product_result, "Product")
       IN  /\ pc = "done"
           /\ IsMeanOfPresent(result.product_averages.HasD,
                 [i \in 1..Len(products) |->
                     IF Raw(products[i], "HasD") # PyNone
                     THEN ConvertedOrNone(Raw(products[i], "HasD")) ELSE PyNone])
           /\ result.products = Len(products)
           /\ Len(result.product_details) = Len(products)
           /\ \A i \in 1..Len(products) :
                 result.product_details[i].HasD = Raw(products[i], "HasD")

\* C9 amended: a Product whose HasD is truthy and on which float() raises
\* ValueError or TypeError does not make process_results fail;
\* product_averages.HasD is the mean over the Products with a truthy,
\* convertible HasD (a HasD of 0, "" or None is left out like a missing one;
\* None when there are none), and every Product is counted and listed with its
\* raw HasD.  Another exception of float(), such as OverflowError, is not caught.
C9_LenientOverTruthy ==
    /\ (pc # "process" /\ ProductSideFine /\ LotSideFine)
       => LET products == Entities(product_result, "Product")
          IN  /\ pc = "done"
              /\ IsMeanOfPresent(result.product_averages.HasD,
                    [i \in 1..Len(products) |->
                        IF Truthy(Raw(products[i], "HasD"))
                        THEN ConvertedOrNone(Raw(products[i], "HasD")) ELSE PyNone])
              /\ result.products = Len(products)
              /\ Len(result.product_details) = Len(products)
              /\ \A i \in 1..Len(products) :
                    result.product_details[i].HasD = Raw(products[i], "HasD")
    /\ (pc # "process" /\ WellFormed(product_result, "Product") /\ ~ProductSideFine)
       => pc = "failed" /\ error = "OverflowError" /\ result = NoReport

\* two Products, one with HasD "10" and one with the HasD "x"
C9_Witness ==
    /\ pc = "done"
    /\ result.products = 2
    /\ \E i \in 1..2 : result.product_details[i].HasD = Str1("x")
    /\ result.product_averages.HasD = Frac(10, 1)

\* C10: when the first entity of a Lot result has a metric that is truthy and
\* does not convert to a number, the conversion error leaves from_lot_data and
\* process_results, no report is returned, and run_workflow re-raises it.
C10_BadLotMetricAborts ==
    ( /\ pc \in {"done", "failed"}
      /\ saved
      /\ \E i \in 1..Len(FirstEntities) : BadMetric(FirstEntities[i]) )
    => /\ pc = "failed"
       /\ result = NoReport
       /\ ~ENABLED Next
       /\ (ProductSideFine /\ \A i \in 1..Len(FirstEntities) : ~LacksHasP(FirstEntities[i]))
          => error \in {"ValueError", "TypeError", "OverflowError"}

\* a sound Lot result followed by one whose HasEtc is "x"
C10_Witness ==
    /\ pc = "failed"
    /\ saved
    /\ error = "ValueError"
    /\ Len(FirstEntities) = 2
    /\ ~BadMetric(FirstEntities[1])
    /\ BadMetric(FirstEntities[2])

\* the keys of the Lot fetches issued so far, in the order of the fetches
LotFetchKeys == [i \in 1..(Len(fetches) - 1) |-> fetches[i + 1].key]

\* the join keys of the run: the Products' HasP values, then the example key
JoinKeys == ProductHasPs \o (IF include_example THEN <<ExampleKey>> ELSE <<>>)

====
